---- MODULE Spec2Model ----
(***************************************************************************)
(* A model of the standards puller (src/pull_standards.py) and of the      *)
(* verification pass (src/verify_standards.py).                            *)
(*                                                                         *)
(* Text that the program slugs, lower-cases or measures is a sequence of   *)
(* one-character strings; Str renders such a sequence as a string, and     *)
(* that string is what the state keeps (paths, index keys, log fields).    *)
(***************************************************************************)
EXTENDS Integers, Sequences, FiniteSets, TLC

\* ------------------------------------------------------------------ text

Rep(c, n) == [i \in 1..n |-> c]

RECURSIVE Str(_)
\* The string spelled by a sequence of characters (split in halves, so that
\* the depth of the recursion is logarithmic in the length).
Str(t) ==
    IF Len(t) = 0 THEN ""
    ELSE IF Len(t) = 1 THEN t[1]
    ELSE LET h == Len(t) \div 2
         IN  Str(SubSeq(t, 1, h)) \o Str(SubSeq(t, h + 1, Len(t)))

UpperAZ == <<"A","B","C","D","E","F","G","H","I","J","K","L","M",
             "N","O","P","Q","R","S","T","U","V","W","X","Y","Z">>
LowerAZ == <<"a","b","c","d","e","f","g","h","i","j","k","l","m",
             "n","o","p","q","r","s","t","u","v","w","x","y","z">>
Digits == {"0","1","2","3","4","5","6","7","8","9"}

\* [a-z0-9]
IsAlnum(c) == c \in Digits \/ (\E i \in 1..26 : LowerAZ[i] = c)

IsSpace(c) == c \in {" ", "\t", "\n", "\r"}

\* str.lower(), one character
LowerChar(c) ==
    IF \E i \in 1..26 : UpperAZ[i] = c
    THEN LowerAZ[CHOOSE i \in 1..26 : UpperAZ[i] = c]
    ELSE c

\* str.lower()
lower(t) == [i \in 1..Len(t) |-> LowerChar(t[i])]

SetMin(S) == CHOOSE x \in S : \A y \in S : x <= y
SetMax(S) == CHOOSE x \in S : \A y \in S : x >= y

\* str.strip(): leading and trailing whitespace removed
strip(t) ==
    LET keep == {i \in 1..Len(t) : ~IsSpace(t[i])}
    IN  IF keep = {} THEN <<>> ELSE SubSeq(t, SetMin(keep), SetMax(keep))

\* (mutant) the leading and trailing "-" are kept
dashes_kept(t) == t

\* str.strip("-")
strip_dash(t) ==
    LET keep == {i \in 1..Len(t) : t[i] # "-"}
    IN  IF keep = {} THEN <<>> ELSE SubSeq(t, SetMin(keep), SetMax(keep))

\* re.sub(r"[^a-z0-9]+", "-", s): every maximal run of characters outside
\* [a-z0-9] becomes one "-"
sub_non_alnum(t) ==
    LET marked == [i \in 1..Len(t) |->
                     IF IsAlnum(t[i]) THEN t[i]
                     ELSE IF i > 1 /\ ~IsAlnum(t[i - 1]) THEN "" ELSE "-"]
    IN  SelectSeq(marked, LAMBDA c : c # "")

\* re.sub(r"-{2,}", "-", s): every run of two or more "-" becomes one "-"
sub_dashes(t) ==
    LET marked == [i \in 1..Len(t) |->
                     IF t[i] = "-" /\ i > 1 /\ t[i - 1] = "-" THEN "" ELSE t[i]]
    IN  SelectSeq(marked, LAMBDA c : c # "")

unnamed == <<"u","n","n","a","m","e","d">>

\* s[:n] for n >= 0
Take(t, n) == SubSeq(t, 1, IF n < Len(t) THEN n ELSE Len(t))

slug(s) ==
    LET s1 == lower(strip(s))
        s2 == sub_non_alnum(s1)
        s3 == sub_dashes(s2)
        s4 == strip_dash(s3)
    IN  IF s4 = <<>> THEN unnamed ELSE s4

\* _short(s, n): the empty text is falsy and skips the truncation
short(s, n) == IF s # <<>> THEN Take(slug(s), n) ELSE unnamed

max_label == 40

safe_filename(label, set_id) ==
    short(label, max_label) \o <<"_","_">> \o lower(set_id)
        \o <<".","j","s","o","n">>

threshold == 240

\* _too_long(p): the length of the rendered path against the threshold
too_long(p) == Len(p) >= threshold

\* pathlib's "/" operator on relative, non-empty segments
Slash(a, b) == a \o <<"/">> \o b

OUT_ROOT == <<"s","t","a","n","d","a","r","d","s">>
INDEX_ROOT == Slash(OUT_ROOT, <<"_","i","n","d","e","x">>)
PATH_INDEX_FILE ==
    Str(Slash(INDEX_ROOT, <<"s","t","a","n","d","a","r","d","_","s","e","t",
                            "_","p","a","t","h","s",".","j","s","o","n">>))
\* PATH_INDEX_FILE.with_suffix(".json.bak")
PATH_INDEX_BAK == PATH_INDEX_FILE \o ".bak"
FALLBACK_LOG ==
    Str(Slash(INDEX_ROOT, <<"f","a","l","l","b","a","c","k","_","l","o","g",
                            ".","j","s","o","n","l">>))
JURISDICTIONS_FILE ==
    Str(Slash(INDEX_ROOT, <<"j","u","r","i","s","d","i","c","t","i","o","n","s",
                            ".","j","s","o","n">>))

fallback_path(jur_slug_short, set_id) ==
    Slash(Slash(OUT_ROOT, jur_slug_short), lower(set_id) \o <<".","j","s","o","n">>)


\* ---------------------------------------------------------- remote catalog

\* The texts of the remote catalog this model runs against.
T_A1 == <<"A","1">>
T_B2 == <<"B","2">>
T_A9 == <<"A","9">>
T_Alabama == <<" ","A","l","a","b","a","m","a"," ">>
\* another jurisdiction's title with the same slug
T_ALABAMA == <<"A","L","A","B","A","M","A","!">>
\* a title whose slug makes the primary path of the set listing too long
T_LongTitle == <<"N","a","t","l",".">> \o Rep("x", 220)
T_state == <<"S","t","a","t","e">>
T_org == <<"o","r","g">>
T_S1A == <<"S","1","A">>
T_C3 == <<"C","3">>
\* an identifier long enough to push the primary path of its set over the threshold
T_LongId == <<"E","0">> \o Rep("F", 225)
T_Math == <<"M","a","t","h"," ","&"," ","S","t","a","t","s">>
T_Science == <<"S","c","i","e","n","c","e">>
T_GradeK == <<"G","r","a","d","e"," ","K">>
T_unspecified == <<"u","n","s","p","e","c","i","f","i","e","d">>

\* GET /jurisdictions: the "data" of the response. A missing field is the
\* empty text (both are falsy in the code).
RemoteJurisdictions ==
    << [id |-> T_A1, title |-> T_Alabama, name |-> <<>>, type |-> T_state],
       [id |-> <<>>, title |-> T_GradeK, name |-> <<>>, type |-> T_state],
       [id |-> T_B2, title |-> <<>>, name |-> T_LongTitle, type |-> T_org],
       [id |-> T_A9, title |-> T_ALABAMA, name |-> <<>>, type |-> T_org] >>

\* GET /jurisdictions/<id>: the standardSets of the jurisdiction's detail
RemoteStandardSets(jur_id) ==
    IF jur_id = T_A1 THEN
        << [id |-> T_S1A, subject |-> T_Math, educationLevels |-> <<<<"K">>, <<"0","1">>>>,
            title |-> T_GradeK],
           [id |-> <<>>, subject |-> T_Math, educationLevels |-> <<>>, title |-> T_GradeK],
           [id |-> T_LongId, subject |-> <<>>, educationLevels |-> <<>>, title |-> T_GradeK] >>
    ELSE IF jur_id = T_B2 THEN
        << [id |-> T_C3, subject |-> T_Science, educationLevels |-> <<>>, title |-> <<>>] >>
    ELSE <<>>

\* GET /standard_sets/<id>: the response body, a {"data": ...} envelope
RemoteStandardSet(set_id) ==
    [data |-> [id |-> Str(set_id), standards |-> Str(lower(set_id))]]

\* get_json's unwrapping: data.get("data", data)
Unwrap(body) == IF "data" \in DOMAIN body THEN body.data ELSE body

\* a or b, for texts
Or(a, b) == IF a # <<>> THEN a ELSE b

RECURSIVE JoinDash(_)
\* "-".join(levels)
JoinDash(levels) ==
    IF Len(levels) = 0 THEN <<>>
    ELSE IF Len(levels) = 1 THEN levels[1]
    ELSE levels[1] \o <<"-">> \o JoinDash(Tail(levels))

json_ext == <<".","j","s","o","n">>
standard_sets_ == <<"s","t","a","n","d","a","r","d","_","s","e","t","s","_">>

\* What main computes for the jurisdiction at position i of the listing
\* before it fetches anything for it.
JurOf(i) ==
    LET j == RemoteJurisdictions[i]
        jur_id == j.id
        jur_title == strip(Or(j.title, Or(j.name, jur_id)))
        jur_slug_full == slug(jur_title)
        jur_slug_short == Take(jur_slug_full, 40)
        primary == Slash(INDEX_ROOT, standard_sets_ \o jur_slug_full \o json_ext)
        fallback == Slash(INDEX_ROOT, standard_sets_ \o jur_slug_short \o json_ext)
    IN  [ jur_id |-> Str(jur_id),
          has_id |-> jur_id # <<>>,
          jur_title |-> Str(jur_title),
          is_state |-> lower(strip(j.type)) = <<"s","t","a","t","e">>,
          jur_slug_short |-> Str(jur_slug_short),
          jur_sets_primary |-> Str(primary),
          primary_too_long |-> too_long(primary),
          jur_sets_fallback |-> Str(fallback),
          sets |-> RemoteStandardSets(jur_id),
          \* the listing as json.dumps writes it
          listing |-> [k \in 1..Len(RemoteStandardSets(jur_id)) |->
                         LET s == RemoteStandardSets(jur_id)[k]
                         IN  IF s.id # <<>> THEN [id |-> Str(s.id)]
                             ELSE [title |-> Str(s.title)]] ]

\* What main computes for set summary k of the jurisdiction at position i.
SetOf(i, k) ==
    LET j == RemoteJurisdictions[i]
        jur_slug_short == Take(slug(strip(Or(j.title, Or(j.name, j.id)))), 40)
        s == RemoteStandardSets(j.id)[k]
        set_id == strip(s.id)
        subject == Or(s.subject, T_unspecified)
        levels == s.educationLevels
        grade_label == IF levels # <<>> THEN JoinDash(levels) ELSE Or(s.title, set_id)
        subject_slug_short == short(subject, 40)
        out_dir == Slash(Slash(OUT_ROOT, jur_slug_short), subject_slug_short)
        out_name == safe_filename(grade_label, set_id)
        out_file == Slash(out_dir, out_name)
        fallback_file == fallback_path(jur_slug_short, set_id)
    IN  [ set_id |-> Str(set_id),
          has_id |-> set_id # <<>>,
          subject |-> Str(subject),
          grade_label |-> Str(grade_label),
          out_name |-> Str(out_name),
          out_file |-> Str(out_file),
          out_too_long |-> too_long(out_file),
          fallback_file |-> Str(fallback_file),
          fallback_name |-> Str(lower(set_id) \o json_ext),
          full |-> Unwrap(RemoteStandardSet(set_id)) ]

NJur == Len(RemoteJurisdictions)

\* The two tables, computed once.
Jur == [i \in 1..NJur |-> JurOf(i)]
Sets == [i \in 1..NJur |-> [k \in 1..Len(RemoteStandardSets(RemoteJurisdictions[i].id)) |-> SetOf(i, k)]]

\* ------------------------------------------------------------ bounds

\* runs of main() in one behaviour
MaxRuns == 2
\* operations that the environment disturbs in one behaviour: a remote call
\* that sees failing attempts, a file operation that raises OSError, a Ctrl+C
MaxFaults == 1

\* -------------------------------------------------------------- state

VARIABLES
    disk,          \* the files under standards/: path -> content
    pc,            \* the statement of main() that runs next; "idle" between runs
    args,          \* the parsed command line of the current (or last) run
    key,           \* the API key load_api_key returned
    path_index,    \* main's path_index dict
    idx_j,         \* position of j in jurs (enumerate)
    s_k,           \* position of s in sets
    processed,     \* main's processed counter
    pulled,        \* main's pulled counter
    upd,           \* the running update_path_index call
    rt,            \* the running with_retries call
    wf,            \* the running write_json_with_fallback call
    exit,          \* how the last run ended
    runs,          \* runs started so far
    faults,        \* disturbed operations so far
    disturbed,     \* whether this run saw a disturbed operation
    fetched,       \* set ids that get_standard_set was called for in this run
    wrote,         \* artifact paths this run opened for writing
    handled,       \* set ids whose index entry this run persisted
    prev,          \* what the run before this one left
    report         \* what the last verification pass printed, or a helper
                   \* called on its own returned

vars == <<disk, pc, args, key, path_index, idx_j, s_k, processed, pulled, upd,
          rt, wf, exit, runs, faults, disturbed, fetched, wrote, handled, prev,
          report>>

locals == <<idx_j, s_k, processed, pulled>>
observed == <<fetched, wrote, handled, prev>>

\* ------------------------------------------------------------ the disk

EmptyDict == <<>>

\* json.dumps(data, indent=2, ensure_ascii=False): the complete text of doc
Dumps(doc) == [kind |-> "json", doc |-> doc]
\* a file that open(..., "w") created or truncated and that was not written
\* to its end: not parseable
Truncated == [kind |-> "truncated"]
\* the fallback log: lines of JSON
Lines(ls) == [kind |-> "jsonl", lines |-> ls]

Put(d, p, c) == [q \in DOMAIN d \cup {p} |-> IF q = p THEN c ELSE d[q]]
Remove(d, p) == [q \in DOMAIN d \ {p} |-> d[q]]

\* Path.exists()
Exists(d, p) == p \in DOMAIN d

\* json.loads(path.read_text()) succeeds
Parses(d, p) == Exists(d, p) /\ d[p].kind = "json"

\* the lines of the fallback log
LogLines(d) == IF Exists(d, FALLBACK_LOG) THEN d[FALLBACK_LOG].lines ELSE <<>>

\* what a reader of the index file finds: no file, an unparseable file, or
\* the dict
IndexOnDisk(d) ==
    IF ~Exists(d, PATH_INDEX_FILE) THEN [kind |-> "missing", doc |-> EmptyDict]
    ELSE IF ~Parses(d, PATH_INDEX_FILE) THEN [kind |-> "corrupt", doc |-> EmptyDict]
    ELSE [kind |-> "index", doc |-> d[PATH_INDEX_FILE].doc]

\* ------------------------------------------------------- command line

CommandLine(max_jur, max_sets, jur, states_only, overwrite) ==
    [max_jur |-> max_jur, max_sets |-> max_sets, jur |-> jur,
     states_only |-> states_only, overwrite |-> overwrite]

\* The command lines a run is started with (argparse's defaults where a flag
\* is not given; --delay only sleeps and is left at its default).
ArgChoices ==
    { CommandLine(0, 0, {}, FALSE, FALSE),         \* no flag
      CommandLine(0, 1, {}, FALSE, FALSE),         \* --max-sets 1
      \* --overwrite --max-jur 1 --jur A1 --states-only
      CommandLine(1, 0, {"A1"}, TRUE, TRUE) }

\* --------------------------------------------------------- environment

\* one more operation may be disturbed
Fault ==
    /\ faults < MaxFaults
    /\ faults' = faults + 1
    /\ disturbed' = TRUE

NoFault == UNCHANGED <<faults, disturbed>>

NoCall == [status |-> "none"]
\* main's key before line 145 has run
NoKey == "<unbound>"
NotRun == [how |-> "none", code |-> 0, why |-> ""]
Running == [how |-> "running", code |-> 0, why |-> ""]

\* The process ends: main's locals are gone, the disk stays.
Finish(how, code, why) ==
    /\ pc' = "idle"
    /\ exit' = [how |-> how, code |-> code, why |-> why]
    /\ key' = NoKey
    /\ path_index' = EmptyDict
    /\ idx_j' = 0 /\ s_k' = 0 /\ processed' = 0 /\ pulled' = 0
    /\ upd' = NoCall /\ rt' = NoCall /\ wf' = NoCall

\* ----------------------------------------------------------- API key

\* the contents of .env a run may find: no file, or its lines
DotEnvChoices ==
    { "absent",
      <<[name |-> "OTHER", value |-> <<"1">>]>>,
      <<[name |-> "OTHER", value |-> <<"1">>],
        [name |-> "STANDARDS_API_KEY", value |-> <<"k", " ">>]>>,
      <<[name |-> "STANDARDS_API_KEY", value |-> <<>>]>> }

\* what os.getenv("STANDARDS_API_KEY") may return: None or "" (both falsy),
\* a key, a blank value
GetEnvChoices == { <<>>, <<" ", "k">>, <<" ">> }

\* load_api_key: the stripped value it returns, or SystemExit raised
load_api_key(getenv, dotenv) ==
    IF getenv # <<>> THEN [raised |-> FALSE, key |-> Str(strip(getenv))]
    ELSE IF dotenv = "absent" THEN [raised |-> TRUE, key |-> ""]
    ELSE LET hits == SelectSeq(dotenv, LAMBDA l : l.name = "STANDARDS_API_KEY")
         IN  IF hits # <<>>
             THEN [raised |-> FALSE, key |-> Str(strip(hits[1].value))]
             ELSE [raised |-> TRUE, key |-> ""]

\* ------------------------------------------------------- with_retries

default_retries == 3
\* 0.6 s, in tenths of a second
default_backoff == 6

\* what one call of fn() can come to: a response status, or the exception
\* requests.get raises
Responses == {"200", "500", "ConnectionError", "Timeout", "TooManyRedirects"}

\* the exception of a response that with_retries catches ("" for none)
Caught(r) ==
    IF r = "500" THEN "HTTPError"
    ELSE IF r \in {"ConnectionError", "Timeout"} THEN r
    ELSE ""

RtStart(fn, retries, backoff) ==
    [status |-> "run", fn |-> fn, retries |-> retries, backoff |-> backoff,
     attempt |-> 1, calls |-> 0, slept |-> <<>>, last |-> "", exc |-> ""]

\* (mutant) the last attempt is slept after and retried like the others
retry_once_more(f, r) ==
    IF f.attempt > f.retries + 1
    THEN [f EXCEPT !.status = "raised", !.exc = "AssertionError"]
    ELSE LET g == [f EXCEPT !.calls = @ + 1]
         IN  IF r = "200" THEN [g EXCEPT !.status = "returned"]
             ELSE IF Caught(r) # "" THEN
                  IF g.attempt <= g.retries
                  THEN [g EXCEPT !.last = Caught(r),
                                 !.slept = Append(@, g.backoff * g.attempt),
                                 !.attempt = @ + 1]
                  ELSE [g EXCEPT !.last = Caught(r), !.status = "raised",
                                 !.exc = Caught(r)]
             ELSE [g EXCEPT !.status = "raised", !.exc = r]

\* One pass of with_retries' loop in frame f, fn() coming to r; with the
\* range exhausted (retries < 1) the assert after the loop.
with_retries(f, r) ==
    IF f.attempt > f.retries
    THEN [f EXCEPT !.status = "raised", !.exc = "AssertionError"]
    ELSE LET g == [f EXCEPT !.calls = @ + 1]
         IN  IF r = "200" THEN [g EXCEPT !.status = "returned"]
             ELSE IF Caught(r) # "" THEN
                  IF g.attempt < g.retries
                  THEN [g EXCEPT !.last = Caught(r),
                                 !.slept = Append(@, g.backoff * g.attempt),
                                 !.attempt = @ + 1]
                  ELSE [g EXCEPT !.last = Caught(r), !.status = "raised",
                                 !.exc = Caught(r)]
             ELSE [g EXCEPT !.status = "raised", !.exc = r]

\* fn() is called once more (or the loop has nothing to run). A call that
\* already saw a failure is the same disturbed operation.
Attempt ==
    /\ rt.status = "run"
    /\ \E r \in Responses :
         /\ rt' = with_retries(rt, r)
         /\ IF r = "200" \/ rt.calls > 0 \/ rt.attempt > rt.retries
            THEN NoFault ELSE Fault
    /\ UNCHANGED <<disk, pc, args, key, path_index, locals, upd, wf, exit, runs, report, observed>>

RtDone == rt.status \in {"returned", "raised"}

\* -------------------------------------------- write_json_with_fallback

WfStart(caller, primary, primary_too_long, fallback, data, reason, meta, log) ==
    [status |-> "run", stage |-> "primary", caller |-> caller,
     primary |-> primary, too_long |-> primary_too_long, fallback |-> fallback,
     data |-> data, reason |-> reason, meta |-> meta,
     e |-> "", e2 |-> "", ret |-> "",
     tried |-> <<>>,     \* the paths write_text_json was called with
     written |-> <<>>,   \* the paths write_text_json returned for
     log0 |-> log]       \* the fallback log when the call began

\* the line log_fallback appends
fallback_entry(f) ==
    [reason |-> f.reason, error |-> f.e, primary |-> f.primary,
     fallback |-> f.fallback, meta |-> f.meta]

\* (mutant) the log is opened with "w": the new line replaces the old ones
log_rewritten(d, entry) == Put(d, FALLBACK_LOG, Lines(<<entry>>))

\* log_fallback(entry): one line appended
log_fallback(d, entry) == Put(d, FALLBACK_LOG, Lines(Append(LogLines(d), entry)))

\* "return primary"
wf_return_primary(f) == [f EXCEPT !.status = "returned", !.ret = f.primary]
\* (mutant) the requested path is returned after a fallback write
wf_return_requested(f) == [f EXCEPT !.status = "returned", !.ret = f.primary]

\* "return fallback"
wf_return_fallback(f) == [f EXCEPT !.status = "returned", !.ret = f.fallback]
\* the inner except: raise RuntimeError(both)
wf_raise(f, e2) == [f EXCEPT !.status = "raised", !.e2 = e2]
\* the outer except: on to the fallback with the primary's error
wf_except(f, e) == [f EXCEPT !.stage = "fallback", !.e = e]

\* the artifact paths (not the listings) that a step of wf touches
Touch(f, p) == IF f.caller = "set" THEN wrote \cup {p} ELSE wrote

\* lines 114-116: the length test, then write_text_json(primary) up to open()
WfPrimary ==
    /\ wf.status = "run" /\ wf.stage = "primary"
    /\ \/ /\ wf.too_long
          /\ wf' = wf_except(wf, "path too long")
          /\ UNCHANGED <<disk, wrote>>
          /\ NoFault
       \/ /\ ~wf.too_long
          /\ wf' = [wf EXCEPT !.stage = "primary_write", !.tried = Append(@, wf.primary)]
          /\ disk' = Put(disk, wf.primary, Truncated)
          /\ wrote' = Touch(wf, wf.primary)
          /\ NoFault
       \/ /\ ~wf.too_long
          /\ wf' = wf_except([wf EXCEPT !.tried = Append(@, wf.primary)], "OSError")
          /\ UNCHANGED <<disk, wrote>>
          /\ Fault
    /\ UNCHANGED <<pc, args, key, path_index, locals, upd, rt, exit, runs, report,
                   fetched, handled, prev>>

\* line 116: the text goes to the opened primary file
WfPrimaryWrite ==
    /\ wf.status = "run" /\ wf.stage = "primary_write"
    /\ \/ /\ wf' = wf_return_primary([wf EXCEPT !.written = Append(@, wf.primary)])
          /\ disk' = Put(disk, wf.primary, Dumps(wf.data))
          /\ NoFault
       \/ /\ wf' = wf_except(wf, "OSError")
          /\ UNCHANGED disk
          /\ Fault
    /\ UNCHANGED <<pc, args, key, path_index, locals, upd, rt, exit, runs, report, observed>>

\* line 121: write_text_json(fallback) up to open()
WfFallback ==
    /\ wf.status = "run" /\ wf.stage = "fallback"
    /\ \/ /\ wf' = [wf EXCEPT !.stage = "fallback_write", !.tried = Append(@, wf.fallback)]
          /\ disk' = Put(disk, wf.fallback, Truncated)
          /\ wrote' = Touch(wf, wf.fallback)
          /\ NoFault
       \/ /\ wf' = wf_raise([wf EXCEPT !.tried = Append(@, wf.fallback)], "OSError")
          /\ UNCHANGED <<disk, wrote>>
          /\ Fault
    /\ UNCHANGED <<pc, args, key, path_index, locals, upd, rt, exit, runs, report,
                   fetched, handled, prev>>

\* line 121: the text goes to the opened fallback file
WfFallbackWrite ==
    /\ wf.status = "run" /\ wf.stage = "fallback_write"
    /\ \/ /\ wf' = [wf EXCEPT !.stage = "log", !.written = Append(@, wf.fallback)]
          /\ disk' = Put(disk, wf.fallback, Dumps(wf.data))
          /\ NoFault
       \/ /\ wf' = wf_raise(wf, "OSError")
          /\ UNCHANGED disk
          /\ Fault
    /\ UNCHANGED <<pc, args, key, path_index, locals, upd, rt, exit, runs, report, observed>>

\* lines 123-130: log_fallback, then return fallback; what log_fallback
\* raises is caught by the inner except like a failed fallback write
WfLog ==
    /\ wf.status = "run" /\ wf.stage = "log"
    /\ \/ /\ wf' = wf_return_fallback(wf)
          /\ disk' = log_fallback(disk, fallback_entry(wf))
          /\ NoFault
       \/ /\ wf' = wf_raise(wf, "OSError")
          /\ UNCHANGED disk
          /\ Fault
    /\ UNCHANGED <<pc, args, key, path_index, locals, upd, rt, exit, runs, report, observed>>

WfDone == wf.status \in {"returned", "raised"}

\* ---------------------------------------------------- index persistence

\* load_path_index on disk d. os.rename onto an existing target replaces it
\* on POSIX and raises FileExistsError on Windows: `replaces` says which.
load_path_index(d, replaces) ==
    IF ~Exists(d, PATH_INDEX_FILE)
    THEN [disk |-> d, idx |-> EmptyDict, exc |-> ""]
    ELSE IF Parses(d, PATH_INDEX_FILE)
    THEN [disk |-> d, idx |-> d[PATH_INDEX_FILE].doc, exc |-> ""]
    ELSE IF Exists(d, PATH_INDEX_BAK) /\ ~replaces
    THEN [disk |-> d, idx |-> EmptyDict, exc |-> "FileExistsError"]
    ELSE [disk |-> Put(Remove(d, PATH_INDEX_FILE), PATH_INDEX_BAK, d[PATH_INDEX_FILE]),
          idx |-> EmptyDict, exc |-> ""]

\* the entry of the skip-existing branch (lines 212-222)
skip_entry(i, k) ==
    [set_id |-> Sets[i][k].set_id,
     path |-> Sets[i][k].out_file,
     jurisdiction_id |-> Jur[i].jur_id,
     jurisdiction_slug |-> Jur[i].jur_slug_short,
     jurisdiction_title |-> Jur[i].jur_title,
     subject |-> Sets[i][k].subject,
     grade_label |-> Sets[i][k].grade_label,
     filename |-> Sets[i][k].out_name,
     used_fallback |-> FALSE]

\* (mutant) the entry is built from out_file, not from the path returned
entry_of_out_file(i, k, written_path) ==
    [skip_entry(i, k) EXCEPT !.used_fallback = written_path # Sets[i][k].out_file]

\* (mutant) the flag is left False whatever path was written
entry_flag_false(i, k, written_path) ==
    [skip_entry(i, k) EXCEPT
        !.path = written_path,
        !.filename = IF written_path = Sets[i][k].out_file
                     THEN Sets[i][k].out_name ELSE Sets[i][k].fallback_name]

\* the entry after a download (lines 251-263)
download_entry(i, k, written_path) ==
    [set_id |-> Sets[i][k].set_id,
     path |-> written_path,
     jurisdiction_id |-> Jur[i].jur_id,
     jurisdiction_slug |-> Jur[i].jur_slug_short,
     jurisdiction_title |-> Jur[i].jur_title,
     subject |-> Sets[i][k].subject,
     grade_label |-> Sets[i][k].grade_label,
     filename |-> IF written_path = Sets[i][k].out_file
                  THEN Sets[i][k].out_name ELSE Sets[i][k].fallback_name,
     used_fallback |-> written_path # Sets[i][k].out_file]

UpdStart(entry, then) == [status |-> "run", stage |-> "assign", entry |-> entry, then |-> then]

\* update_path_index, lines 103-104: idx[set_id] = entry
UpdAssign ==
    /\ pc = "update_path_index" /\ upd.stage = "assign"
    /\ path_index' = Put(path_index, upd.entry.set_id, upd.entry)
    /\ upd' = [upd EXCEPT !.stage = "open"]
    /\ NoFault
    /\ UNCHANGED <<disk, pc, args, key, locals, rt, wf, exit, runs, report, observed>>

\* persist_path_index up to open(): the index file is truncated
UpdOpen ==
    /\ pc = "update_path_index" /\ upd.stage = "open"
    /\ \/ /\ disk' = Put(disk, PATH_INDEX_FILE, Truncated)
          /\ upd' = [upd EXCEPT !.stage = "write"]
          /\ NoFault
          /\ UNCHANGED <<pc, key, path_index, locals, rt, wf, exit>>
       \/ /\ Fault
          /\ Finish("exception", 1, "OSError in update_path_index")
          /\ UNCHANGED disk
    /\ UNCHANGED <<args, runs, report, observed>>

\* persist_path_index: the whole index goes to the file; then the statement
\* after the update_path_index call
UpdWrite ==
    /\ pc = "update_path_index" /\ upd.stage = "write"
    /\ \/ /\ disk' = Put(disk, PATH_INDEX_FILE, Dumps(path_index))
          /\ handled' = handled \cup {upd.entry.set_id}
          /\ upd' = NoCall
          /\ IF upd.then = "skip"
             THEN pc' = "for_s" /\ s_k' = s_k + 1
             ELSE pc' = "pulled" /\ s_k' = s_k
          /\ NoFault
          /\ UNCHANGED <<key, path_index, idx_j, processed, pulled, rt, wf, exit>>
       \/ /\ Fault
          /\ Finish("exception", 1, "OSError in update_path_index")
          /\ UNCHANGED <<disk, handled>>
    /\ UNCHANGED <<args, runs, report, fetched, wrote, prev>>

\* ------------------------------------------------------------------ main

\* python starts main()
StartRun ==
    /\ pc = "idle"
    /\ runs < MaxRuns
    /\ \E a \in ArgChoices : args' = a
    /\ pc' = "load_api_key"
    /\ runs' = runs + 1
    /\ exit' = Running
    /\ disturbed' = FALSE
    /\ fetched' = {} /\ wrote' = {} /\ handled' = {}
    /\ prev' = [args |-> args, exit |-> exit, index |-> IndexOnDisk(disk),
                handled |-> handled, clean |-> ~disturbed]
    /\ UNCHANGED <<disk, key, path_index, locals, upd, rt, wf, faults, report>>

\* line 145, and the call of line 148
LoadApiKey ==
    /\ pc = "load_api_key"
    /\ \E getenv \in GetEnvChoices, dotenv \in DotEnvChoices :
         LET r == load_api_key(getenv, dotenv)
         IN  IF r.raised
             THEN Finish("SystemExit", 1, "Missing API key")
             ELSE /\ key' = r.key
                  /\ rt' = RtStart("/jurisdictions", default_retries, default_backoff)
                  /\ pc' = "list_jurisdictions"
                  /\ UNCHANGED <<path_index, locals, upd, wf, exit>>
    /\ NoFault
    /\ UNCHANGED <<disk, args, runs, report, observed>>

\* line 148 returns or raises (uncaught)
ListJurisdictions ==
    /\ pc = "list_jurisdictions" /\ RtDone
    /\ IF rt.status = "returned"
       THEN /\ pc' = "write_jurisdictions_open"
            /\ rt' = NoCall
            /\ UNCHANGED <<key, path_index, locals, upd, wf, exit>>
       ELSE Finish("exception", 1, rt.exc)
    /\ NoFault
    /\ UNCHANGED <<disk, args, runs, report, observed>>

\* the listing as it is written to jurisdictions.json
JurisdictionsDoc ==
    [i \in 1..NJur |-> [id |-> Str(RemoteJurisdictions[i].id),
                        title |-> Str(RemoteJurisdictions[i].title)]]

\* lines 149-150, up to open()
WriteJurisdictionsOpen ==
    /\ pc = "write_jurisdictions_open"
    /\ \/ /\ disk' = Put(disk, JURISDICTIONS_FILE, Truncated)
          /\ pc' = "write_jurisdictions"
          /\ NoFault
          /\ UNCHANGED <<key, path_index, locals, upd, rt, wf, exit>>
       \/ /\ Fault
          /\ Finish("exception", 1, "OSError")
          /\ UNCHANGED disk
    /\ UNCHANGED <<args, runs, report, observed>>

\* line 150, the text is written
WriteJurisdictions ==
    /\ pc = "write_jurisdictions"
    /\ \/ /\ disk' = Put(disk, JURISDICTIONS_FILE, Dumps(JurisdictionsDoc))
          /\ pc' = "load_path_index"
          /\ NoFault
          /\ UNCHANGED <<key, path_index, locals, upd, rt, wf, exit>>
       \/ /\ Fault
          /\ Finish("exception", 1, "OSError")
          /\ UNCHANGED disk
    /\ UNCHANGED <<args, runs, report, observed>>

\* line 153
LoadPathIndex ==
    /\ pc = "load_path_index"
    /\ \E replaces \in BOOLEAN :
         LET r == load_path_index(disk, replaces)
         IN  /\ disk' = r.disk
             /\ IF r.exc = ""
                THEN /\ path_index' = r.idx
                     /\ pc' = "for_j"
                     /\ idx_j' = 1
                     /\ UNCHANGED <<key, s_k, processed, pulled, upd, rt, wf, exit>>
                ELSE Finish("exception", 1, r.exc)
    /\ NoFault
    /\ UNCHANGED <<args, runs, report, observed>>

\* lines 162-167: the jurisdiction is passed over
Filtered(a, i) ==
    \/ ~Jur[i].has_id
    \/ (a.jur # {} /\ Jur[i].jur_id \notin a.jur)
    \/ (a.states_only /\ ~Jur[i].is_state)

\* line 159: the listing is exhausted, main returns
ForJEnd ==
    /\ pc = "for_j" /\ idx_j > NJur
    /\ Finish("returned", 0, "")
    /\ NoFault
    /\ UNCHANGED <<disk, args, runs, report, observed>>

\* lines 160-167: continue
ForJSkip ==
    /\ pc = "for_j" /\ idx_j <= NJur /\ Filtered(args, idx_j)
    /\ idx_j' = idx_j + 1
    /\ NoFault
    /\ UNCHANGED <<disk, pc, args, key, path_index, s_k, processed, pulled, upd,
                   rt, wf, exit, runs, report, observed>>

\* lines 169-174: the detail is asked for
ForJFetch ==
    /\ pc = "for_j" /\ idx_j <= NJur /\ ~Filtered(args, idx_j)
    /\ rt' = RtStart("/jurisdictions/" \o Jur[idx_j].jur_id, default_retries, default_backoff)
    /\ pc' = "get_jurisdiction"
    /\ NoFault
    /\ UNCHANGED <<disk, args, key, path_index, locals, upd, wf, exit, runs, report, observed>>

\* lines 174-191: the detail arrived and the listing is handed to the writer,
\* or the fetch failed and the jurisdiction is skipped
GetJurisdiction ==
    /\ pc = "get_jurisdiction" /\ RtDone
    /\ rt' = NoCall
    /\ IF rt.status = "returned"
       THEN /\ wf' = WfStart("listing", Jur[idx_j].jur_sets_primary,
                             Jur[idx_j].primary_too_long, Jur[idx_j].jur_sets_fallback,
                             Jur[idx_j].listing, "jurisdiction_index_path_too_long",
                             [jurisdiction_id |-> Jur[idx_j].jur_id], LogLines(disk))
            /\ pc' = "write_listing"
            /\ UNCHANGED idx_j
       ELSE /\ idx_j' = idx_j + 1
            /\ pc' = "for_j"
            /\ UNCHANGED wf
    /\ NoFault
    /\ UNCHANGED <<disk, args, key, path_index, s_k, processed, pulled, upd, exit,
                   runs, report, observed>>

\* line 185 returns, or raises (uncaught)
WriteListing ==
    /\ pc = "write_listing" /\ WfDone
    /\ IF wf.status = "returned"
       THEN /\ wf' = NoCall
            /\ pulled' = 0
            /\ s_k' = 1
            /\ pc' = "for_s"
            /\ UNCHANGED <<key, path_index, idx_j, processed, upd, rt, exit>>
       ELSE Finish("exception", 1, "RuntimeError in write_json_with_fallback")
    /\ NoFault
    /\ UNCHANGED <<disk, args, runs, report, observed>>

NSets(i) == Len(Sets[i])

\* line 194: the sets are exhausted
ForSEnd ==
    /\ pc = "for_s" /\ s_k > NSets(idx_j)
    /\ pc' = "after_sets"
    /\ NoFault
    /\ UNCHANGED <<disk, args, key, path_index, locals, upd, rt, wf, exit, runs, report, observed>>

\* lines 195-197: a summary without id is passed over
ForSNoId ==
    /\ pc = "for_s" /\ s_k <= NSets(idx_j) /\ ~Sets[idx_j][s_k].has_id
    /\ s_k' = s_k + 1
    /\ NoFault
    /\ UNCHANGED <<disk, pc, args, key, path_index, idx_j, processed, pulled, upd,
                   rt, wf, exit, runs, report, observed>>

\* line 210
SkipExisting(i, k) == Exists(disk, Sets[i][k].out_file) /\ ~args.overwrite

\* lines 210-223: the output exists, its entry is refreshed
ForSSkip ==
    /\ pc = "for_s" /\ s_k <= NSets(idx_j) /\ Sets[idx_j][s_k].has_id
    /\ SkipExisting(idx_j, s_k)
    /\ upd' = UpdStart(skip_entry(idx_j, s_k), "skip")
    /\ pc' = "update_path_index"
    /\ NoFault
    /\ UNCHANGED <<disk, args, key, path_index, locals, rt, wf, exit, runs, report, observed>>

\* lines 225-226: the full record is asked for
ForSFetch ==
    /\ pc = "for_s" /\ s_k <= NSets(idx_j) /\ Sets[idx_j][s_k].has_id
    /\ ~SkipExisting(idx_j, s_k)
    /\ rt' = RtStart("/standard_sets/" \o Sets[idx_j][s_k].set_id, default_retries, default_backoff)
    /\ fetched' = fetched \cup {Sets[idx_j][s_k].set_id}
    /\ pc' = "get_standard_set"
    /\ NoFault
    /\ UNCHANGED <<disk, args, key, path_index, locals, upd, wf, exit, runs, report,
                   wrote, handled, prev>>

\* lines 226-246: the record arrived and is handed to the writer, or the
\* fetch failed and the set is skipped
GetStandardSet ==
    /\ pc = "get_standard_set" /\ RtDone
    /\ rt' = NoCall
    /\ IF rt.status = "returned"
       THEN /\ wf' = WfStart("set", Sets[idx_j][s_k].out_file, Sets[idx_j][s_k].out_too_long,
                             Sets[idx_j][s_k].fallback_file, Sets[idx_j][s_k].full,
                             "standard_set_path_too_long_or_write_error",
                             [set_id |-> Sets[idx_j][s_k].set_id,
                              jurisdiction_id |-> Jur[idx_j].jur_id], LogLines(disk))
            /\ pc' = "write_set"
            /\ UNCHANGED s_k
       ELSE /\ s_k' = s_k + 1
            /\ pc' = "for_s"
            /\ UNCHANGED wf
    /\ NoFault
    /\ UNCHANGED <<disk, args, key, path_index, idx_j, processed, pulled, upd, exit,
                   runs, report, observed>>

\* lines 234-253: the writer returned the path written and the entry is
\* built from it, or it raised and the set is skipped
WriteSet ==
    /\ pc = "write_set" /\ WfDone
    /\ wf' = NoCall
    /\ IF wf.status = "returned"
       THEN /\ upd' = UpdStart(download_entry(idx_j, s_k, wf.ret), "download")
            /\ pc' = "update_path_index"
            /\ UNCHANGED s_k
       ELSE /\ s_k' = s_k + 1
            /\ pc' = "for_s"
            /\ UNCHANGED upd
    /\ NoFault
    /\ UNCHANGED <<disk, args, key, path_index, idx_j, processed, pulled, rt, exit,
                   runs, report, observed>>

\* lines 265-269: the set counts as pulled; the cap ends the loop, else the
\* delay is slept
Pulled ==
    /\ pc = "pulled"
    /\ pulled' = pulled + 1
    /\ IF args.max_sets # 0 /\ pulled + 1 >= args.max_sets
       THEN pc' = "after_sets" /\ s_k' = s_k
       ELSE pc' = "for_s" /\ s_k' = s_k + 1
    /\ NoFault
    /\ UNCHANGED <<disk, args, key, path_index, idx_j, processed, upd, rt, wf, exit,
                   runs, report, observed>>

\* lines 271-273: the jurisdiction counts as processed; the cap ends the run
AfterSets ==
    /\ pc = "after_sets"
    /\ IF args.max_jur # 0 /\ processed + 1 >= args.max_jur
       THEN Finish("returned", 0, "")
       ELSE /\ processed' = processed + 1
            /\ idx_j' = idx_j + 1
            /\ pc' = "for_j"
            /\ UNCHANGED <<key, path_index, s_k, pulled, upd, rt, wf, exit>>
    /\ NoFault
    /\ UNCHANGED <<disk, args, runs, report, observed>>

\* the statements inside main's try (lines 158-273)
InTry == pc \notin {"idle", "load_api_key", "list_jurisdictions",
                    "write_jurisdictions_open", "write_jurisdictions", "load_path_index"}

\* Ctrl+C: KeyboardInterrupt is raised in the running statement; no
\* "except Exception" catches it. Inside the try main exits with 130; outside
\* it the interpreter ends on the uncaught KeyboardInterrupt.
KeyboardInterrupt ==
    /\ pc # "idle"
    /\ Fault
    /\ IF InTry THEN Finish("sys.exit", 130, "KeyboardInterrupt")
       ELSE Finish("exception", 130, "KeyboardInterrupt")
    /\ UNCHANGED <<disk, args, runs, report, observed>>

\* ---------------------------------------------------------- specification

NotVerified == [status |-> "none"]

\* the state before the first run: the disk d, python at p, with_retries at
\* r, the stand-alone call c
InitState(d, p, r, c) ==
    /\ disk = d
    /\ pc = p
    /\ args = CommandLine(0, 0, {}, FALSE, FALSE)
    /\ key = NoKey
    /\ path_index = EmptyDict
    /\ idx_j = 0 /\ s_k = 0 /\ processed = 0 /\ pulled = 0
    /\ upd = NoCall /\ rt = r /\ wf = NoCall
    /\ exit = NotRun
    /\ runs = 0
    /\ faults = 0
    /\ disturbed = FALSE
    /\ fetched = {} /\ wrote = {} /\ handled = {}
    /\ prev = [args |-> CommandLine(0, 0, {}, FALSE, FALSE),
               exit |-> NotRun, index |-> IndexOnDisk(d),
               handled |-> {}, clean |-> TRUE]
    /\ report = c

InitWith(d, p, r) == InitState(d, p, r, NotVerified)

\* a fresh checkout: nothing under standards/
Init == InitWith(EmptyDict, "idle", NoCall)

Next ==
    \/ StartRun
    \/ LoadApiKey
    \/ ListJurisdictions
    \/ WriteJurisdictionsOpen
    \/ WriteJurisdictions
    \/ LoadPathIndex
    \/ ForJEnd
    \/ ForJSkip
    \/ ForJFetch
    \/ GetJurisdiction
    \/ WriteListing
    \/ ForSEnd
    \/ ForSNoId
    \/ ForSSkip
    \/ ForSFetch
    \/ GetStandardSet
    \/ WriteSet
    \/ Pulled
    \/ AfterSets
    \/ UpdAssign
    \/ UpdOpen
    \/ UpdWrite
    \/ Attempt
    \/ WfPrimary
    \/ WfPrimaryWrite
    \/ WfFallback
    \/ WfFallbackWrite
    \/ WfLog
    \/ KeyboardInterrupt

Spec == Init /\ [][Next]_vars

\* the statements of a running main(): every step but the start of a run
\* and Ctrl+C
Statement ==
    \/ LoadApiKey \/ ListJurisdictions \/ WriteJurisdictionsOpen
    \/ WriteJurisdictions \/ LoadPathIndex
    \/ ForJEnd \/ ForJSkip \/ ForJFetch \/ GetJurisdiction \/ WriteListing
    \/ ForSEnd \/ ForSNoId \/ ForSSkip \/ ForSFetch \/ GetStandardSet
    \/ WriteSet \/ Pulled \/ AfterSets
    \/ UpdAssign \/ UpdOpen \/ UpdWrite
    \/ Attempt
    \/ WfPrimary \/ WfPrimaryWrite \/ WfFallback \/ WfFallbackWrite \/ WfLog

\* ------------------------------------------------ a disk with a .bak

\* The disk two interrupted runs leave: the first was interrupted while
\* persist_path_index was writing the first entry (the index file is left
\* truncated), the second right after load_path_index moved that file aside.
DiskAfterRecovery ==
    [p \in {JURISDICTIONS_FILE, Jur[1].jur_sets_primary, Sets[1][1].out_file,
            PATH_INDEX_BAK} |->
        IF p = JURISDICTIONS_FILE THEN Dumps(JurisdictionsDoc)
        ELSE IF p = Jur[1].jur_sets_primary THEN Dumps(Jur[1].listing)
        ELSE IF p = Sets[1][1].out_file THEN Dumps(Sets[1][1].full)
        ELSE Truncated]

InitRecover == InitWith(DiskAfterRecovery, "idle", NoCall)

\* the runs of main() from a disk that holds a .bak of an earlier recovery
SpecRecover == InitRecover /\ [][Next]_vars

\* --------------------------------------------------- one run, to its end

\* a fresh checkout, or the disk interrupted runs left (an artifact to skip,
\* a .bak)
InitLive == Init \/ InitRecover

\* main() is started once
NextLive ==
    \/ runs = 0 /\ StartRun
    \/ Statement
    \/ KeyboardInterrupt

\* the interpreter keeps executing a started run: a statement that can run
\* does run (requests time out after 30 s, sleeps end)
SpecLive == InitLive /\ [][NextLive]_vars /\ WF_vars(Statement)

\* ------------------------------------------------- with_retries alone

MaxRetries == 4

\* backoff, in tenths of a second
BackoffChoices == {0, default_backoff, 10}

\* with_retries(fn, retries, backoff) called on its own
InitRetry ==
    \E retries \in 0..MaxRetries, backoff \in BackoffChoices :
        InitWith(EmptyDict, "with_retries", RtStart("fn", retries, backoff))

SpecRetry == InitRetry /\ [][Attempt]_vars

\* ------------------------------------------------- verify_standards.py

\* the names INDEX_DIR.glob("standard_sets_*.json") matches
ListingPaths ==
    {Jur[i].jur_sets_primary : i \in 1..NJur} \cup {Jur[i].jur_sets_fallback : i \in 1..NJur}

jur_files(d) == {p \in DOMAIN d : p \in ListingPaths}

\* lines 17-24: the ids of the parsed listings
expected_ids(d) ==
    UNION { {d[p].doc[n].id : n \in {m \in 1..Len(d[p].doc) : "id" \in DOMAIN d[p].doc[m]}}
            : p \in jur_files(d) }

\* f"{saved / expected * 100:.2f}", in hundredths of a percent
Coverage(saved, expected) == (2 * 10000 * saved + expected) \div (2 * expected)

Raised(exc) == [status |-> "raised", exc |-> exc]

\* the script from its first line to its last: what it prints, or the
\* exception that ends it
verify(d) ==
    IF ~Exists(d, PATH_INDEX_FILE) THEN Raised("FileNotFoundError")
    ELSE IF ~Parses(d, PATH_INDEX_FILE) THEN Raised("JSONDecodeError")
    ELSE IF \E p \in jur_files(d) : ~Parses(d, p) THEN Raised("JSONDecodeError")
    ELSE LET expected == expected_ids(d)
             saved_ids == DOMAIN d[PATH_INDEX_FILE].doc
             missing_ids == expected \ saved_ids
         IN  IF Cardinality(expected) = 0 THEN Raised("ZeroDivisionError")
             ELSE [status |-> "printed",
                   jurisdictions |-> Cardinality(jur_files(d)),
                   expected |-> Cardinality(expected),
                   saved |-> Cardinality(saved_ids),
                   coverage |-> Coverage(Cardinality(saved_ids), Cardinality(expected)),
                   missing |-> missing_ids,
                   log |-> Exists(d, FALLBACK_LOG),
                   fallbacks |-> Len(LogLines(d))]

\* python verify_standards.py
Verify ==
    /\ pc = "idle"
    /\ report = NotVerified
    /\ report' = verify(disk)
    /\ UNCHANGED <<disk, pc, args, key, path_index, locals, upd, rt, wf, exit, runs,
                   faults, disturbed, observed>>

\* the entry a run without failures writes for set k of jurisdiction i
clean_entry(i, k) ==
    download_entry(i, k, IF Sets[i][k].out_too_long THEN Sets[i][k].fallback_file
                         ELSE Sets[i][k].out_file)

\* the sets of the catalog that have an id, as <<i, k>>
CatalogSets == {ik \in UNION {{<<i, k>> : k \in 1..NSets(i)} : i \in 1..NJur} :
                  Jur[ik[1]].has_id /\ Sets[ik[1]][ik[2]].has_id}

\* an index file holding the entries of the sets in S
IndexOf(S) ==
    [sid \in {Sets[ik[1]][ik[2]].set_id : ik \in S} |->
        LET ik == CHOOSE x \in S : Sets[x[1]][x[2]].set_id = sid
        IN  clean_entry(ik[1], ik[2])]

\* The disks the verification pass is run on: an index file of any subset of
\* the catalog's sets (or none, or a truncated one), each listing file of a
\* processed jurisdiction absent, truncated, emptied (the remote jurisdiction
\* lost its sets since) or as written, with or without a fallback log.
VerifyDisks ==
    LET files == {Jur[i].jur_sets_fallback : i \in {n \in 1..NJur : Jur[n].has_id}}
        listing(p) == Jur[CHOOSE i \in 1..NJur : Jur[i].jur_sets_fallback = p].listing
    IN  { [p \in {q \in files : ls[q] # "absent"}
              \cup (IF ix.kind = "missing" THEN {} ELSE {PATH_INDEX_FILE})
              \cup (IF lg THEN {FALLBACK_LOG} ELSE {}) |->
             IF p = PATH_INDEX_FILE
             THEN (IF ix.kind = "corrupt" THEN Truncated ELSE Dumps(IndexOf(ix.sets)))
             ELSE IF p = FALLBACK_LOG THEN Lines(<<>>)
             ELSE IF ls[p] = "truncated" THEN Truncated
             ELSE IF ls[p] = "emptied" THEN Dumps(<<>>)
             ELSE Dumps(listing(p))]
          : ix \in {[kind |-> "missing", sets |-> {}], [kind |-> "corrupt", sets |-> {}]}
                   \cup {[kind |-> "index", sets |-> S] : S \in SUBSET CatalogSets},
            ls \in [files -> {"absent", "truncated", "emptied", "written"}],
            lg \in BOOLEAN }

InitVerify == \E d \in VerifyDisks : InitWith(d, "idle", NoCall)

SpecVerify == InitVerify /\ [][Verify]_vars

\* ------------------------------------------------------------ claims

\* ------------------------------------------------ slug and _short alone

\* the longest text drawn
MaxText == 4

\* the characters texts are drawn from: a lowercase and an uppercase letter,
\* a digit, "-", whitespace, punctuation
Alphabet == {"a", "B", "7", "-", " ", "_"}

RECURSIVE TextsOf(_)
\* the texts of exactly n characters
TextsOf(n) ==
    IF n = 0 THEN {<<>>}
    ELSE {Append(t, c) : t \in TextsOf(n - 1), c \in Alphabet}

Texts == UNION {TextsOf(n) : n \in 0..MaxText}

\* the lengths _short is called with; the driver's is max_label
ShortLens == {0, 2, 7, max_label}

\* slug(text) and _short(text, n) about to be called
InitSlug ==
    \E t \in Texts, n \in ShortLens :
        InitState(EmptyDict, "slug", NoCall, [status |-> "called", text |-> t, n |-> n])

\* both calls return
Slugify ==
    /\ pc = "slug" /\ report.status = "called"
    /\ report' = [status |-> "returned", text |-> report.text, n |-> report.n,
                  slug |-> slug(report.text),
                  short |-> short(report.text, report.n)]
    /\ UNCHANGED <<disk, pc, args, key, path_index, locals, upd, rt, wf, exit, runs,
                   faults, disturbed, observed>>

SpecSlug == InitSlug /\ [][Slugify]_vars

\* the full record of the set with id sid, as get_standard_set returns it
FullRecord(sid) ==
    LET ik == CHOOSE x \in CatalogSets : Sets[x[1]][x[2]].set_id = sid
    IN  Sets[ik[1]][ik[2]].full

\* the jurisdictions a run with command line a visits when nothing fails
Visited(a) ==
    LET open == {i \in 1..NJur : ~Filtered(a, i)}
    IN  {i \in open : a.max_jur = 0 \/ Cardinality({n \in open : n < i}) < a.max_jur}

\* the sets of jurisdiction i it downloads, starting from an empty disk
Downloaded(a, i) ==
    LET ids == {k \in 1..NSets(i) : Sets[i][k].has_id}
    IN  {k \in ids : a.max_sets = 0 \/ Cardinality({m \in ids : m < k}) < a.max_sets}

\* the index a single uninterrupted run without failures leaves, starting
\* from an empty disk
UninterruptedIndex(a) ==
    IndexOf(UNION {{<<i, k>> : k \in Downloaded(a, i)} : i \in Visited(a)})

\* the run that just ended returned from main() undisturbed
RanToCompletion == pc = "idle" /\ exit.how = "returned" /\ ~disturbed

\* C1: when main() ran to completion twice in a row with the same command
\* line, without --overwrite and with nothing failing, the second run left the
\* persisted path index as the first left it, fetched no standard set and
\* wrote no artifact file.
C1_Idempotence ==
    ( /\ RanToCompletion
      /\ prev.exit.how = "returned" /\ prev.clean
      /\ args = prev.args
      /\ ~args.overwrite )
    => /\ IndexOnDisk(disk) = prev.index
       /\ fetched = {}
       /\ wrote = {}

\* C2: when the first run from an empty disk was interrupted (at any
\* statement) and main() was then rerun to completion with the same command
\* line and without --overwrite, the persisted path index is the one a single
\* uninterrupted run leaves, and the rerun fetched no set the interrupted run
\* had completed.
C2_ResumeAfterInterruption ==
    ( /\ RanToCompletion
      /\ runs = 2
      /\ prev.exit.why = "KeyboardInterrupt"
      /\ args = prev.args
      /\ ~args.overwrite )
    => /\ IndexOnDisk(disk) = [kind |-> "index", doc |-> UninterruptedIndex(args)]
       /\ fetched \cap prev.handled = {}

\* C3: every entry of the persisted path index names a path at which a file
\* exists, and that file holds the full record of the entry's set.
C3_IndexEntriesValid ==
    LET ix == IndexOnDisk(disk)
    IN  ix.kind = "index" =>
            \A sid \in DOMAIN ix.doc :
                /\ Parses(disk, ix.doc[sid].path)
                /\ disk[ix.doc[sid].path].doc = FullRecord(sid)

\* the exceptions that the work on one jurisdiction or one set raises into main
PerUnitFailures ==
    {"OSError in update_path_index", "RuntimeError in write_json_with_fallback"}

\* C4: no run is ended by the failure of the work on one jurisdiction or one
\* set (writing a jurisdiction's listing, updating the index for a set): such
\* a failure is logged and the driver goes on with the next unit.
C4_FailureIsolation ==
    ~(pc = "idle" /\ exit.how = "exception" /\ exit.why \in PerUnitFailures)

\* C5: a call of write_json_with_fallback whose primary path is too long
\* never calls the writer with the primary path and, the fallback write and
\* the log append not failing, writes the data at the fallback path, returns
\* the fallback path and has appended exactly one line to the fallback log,
\* which carries the primary path, the fallback path and the reason given; a
\* call whose primary write succeeded returns the primary path, which holds
\* the data, and has appended no line.
C5_FallbackTrigger ==
    WfDone =>
        /\ wf.too_long =>
              /\ \A n \in 1..Len(wf.tried) : wf.tried[n] # wf.primary
              /\ (wf.e2 = "") = (wf.status = "returned")
              /\ wf.status = "returned" =>
                    /\ wf.ret = wf.fallback
                    /\ Parses(disk, wf.fallback)
                    /\ disk[wf.fallback] = Dumps(wf.data)
                    /\ Len(LogLines(disk)) = Len(wf.log0) + 1
                    /\ SubSeq(LogLines(disk), 1, Len(wf.log0)) = wf.log0
                    /\ LET line == LogLines(disk)[Len(wf.log0) + 1]
                       IN  /\ line.primary = wf.primary
                           /\ line.fallback = wf.fallback
                           /\ line.reason = wf.reason
        /\ wf.e = "" =>
              /\ wf.status = "returned"
              /\ wf.ret = wf.primary
              /\ disk[wf.primary] = Dumps(wf.data)
              /\ LogLines(disk) = wf.log0

\* C5's case: a set whose primary path is too long was written at its
\* fallback path and the call returned
C5_Witness ==
    /\ WfDone /\ wf.caller = "set"
    /\ wf.too_long /\ wf.status = "returned"

\* C6: when the driver has written a set with write_json_with_fallback and
\* recorded it with update_path_index, the file at the path of the set's
\* persisted index entry parses to the record that was fetched for the set.
C6_RoundTrip ==
    pc = "pulled" =>
        LET sid == Sets[idx_j][s_k].set_id
            ix == IndexOnDisk(disk)
        IN  /\ ix.kind = "index"
            /\ sid \in DOMAIN ix.doc
            /\ Parses(disk, ix.doc[sid].path)
            /\ disk[ix.doc[sid].path].doc = Sets[idx_j][s_k].full

\* C6's case: the set was written at its fallback path and recorded
C6_Witness ==
    /\ pc = "pulled"
    /\ IndexOnDisk(disk).kind = "index"
    /\ Sets[idx_j][s_k].set_id \in DOMAIN IndexOnDisk(disk).doc
    /\ IndexOnDisk(disk).doc[Sets[idx_j][s_k].set_id].used_fallback

\* C7: write_json_with_fallback raises if and only if neither the write at
\* the primary path nor the write at the fallback path succeeded; otherwise
\* it returns a path that holds the data.
C7_RaisesIffBothWritesFailed ==
    WfDone =>
        /\ (wf.status = "raised") = (wf.written = <<>>)
        /\ wf.status = "returned" => disk[wf.ret] = Dumps(wf.data)

RetriedOn == {"HTTPError", "ConnectionError", "Timeout"}

\* C8: with_retries calls fn at most `retries` times; it returns at the first
\* response that is no error, with no call after it; before every further
\* call it has slept backoff * n after failed attempt n, and it has not slept
\* after the last attempt; it goes on to another attempt only after an
\* HTTPError, a ConnectionError or a Timeout; and when the last attempt failed
\* with one of these it raises that failure.
C8_BoundedRetry ==
    rt.status # "none" =>
        /\ rt.calls <= rt.retries
        /\ rt.slept = [n \in 1..Len(rt.slept) |-> rt.backoff * n]
        /\ rt.status = "run" =>
              /\ rt.calls = rt.attempt - 1
              /\ Len(rt.slept) = rt.calls
              /\ rt.calls > 0 => rt.last \in RetriedOn
        /\ rt.status = "returned" =>
              /\ rt.calls = rt.attempt
              /\ Len(rt.slept) = rt.calls - 1
        /\ (rt.status = "raised" /\ rt.exc \in RetriedOn) =>
              /\ rt.calls = rt.retries
              /\ rt.exc = rt.last
              /\ Len(rt.slept) = rt.retries - 1
        /\ (rt.status = "raised" /\ rt.exc \notin RetriedOn \cup {"AssertionError"}) =>
              Len(rt.slept) = rt.calls - 1

\* C8's case: every one of at least two attempts failed and the last failure
\* was raised
C8_Witness ==
    /\ rt.status = "raised" /\ rt.exc \in RetriedOn
    /\ rt.retries >= 2 /\ rt.calls = rt.retries
    /\ rt.backoff > 0

\* C9: whenever load_path_index finds an index file that does not parse, it
\* raises nothing, returns an empty index and has renamed the file to its
\* .bak name.
C9_CorruptIndexRecovery ==
    (pc = "load_path_index" /\ IndexOnDisk(disk).kind = "corrupt") =>
        \A replaces \in BOOLEAN :
            LET r == load_path_index(disk, replaces)
            IN  /\ r.exc = ""
                /\ r.idx = EmptyDict
                /\ ~Exists(r.disk, PATH_INDEX_FILE)
                /\ Exists(r.disk, PATH_INDEX_BAK)
                /\ r.disk[PATH_INDEX_BAK] = disk[PATH_INDEX_FILE]

\* the verification pass read its inputs and found no expected identifier
ExpectedEmpty ==
    /\ Parses(disk, PATH_INDEX_FILE)
    /\ \A p \in jur_files(disk) : Parses(disk, p)
    /\ expected_ids(disk) = {}

\* C10: when the expected set of identifiers is empty, the verification pass
\* completes and prints its summary; it does not end in a division error.
C10_NoDivisionError ==
    (report.status # "none" /\ ExpectedEmpty) => report.status = "printed"

\* the primary path (out_file) of the set with id sid
PrimaryPath(sid) ==
    LET ik == CHOOSE x \in CatalogSets : Sets[x[1]][x[2]].set_id = sid
    IN  Sets[ik[1]][ik[2]].out_file

\* C11: in every entry of the path index, in memory and persisted,
\* used_fallback is true exactly when the entry's path is not the primary
\* path (out_file) of the entry's set.
C11_UsedFallbackIffNotPrimary ==
    /\ \A sid \in DOMAIN path_index :
          path_index[sid].used_fallback = (path_index[sid].path # PrimaryPath(sid))
    /\ LET ix == IndexOnDisk(disk)
       IN  ix.kind = "index" =>
              \A sid \in DOMAIN ix.doc :
                  ix.doc[sid].used_fallback = (ix.doc[sid].path # PrimaryPath(sid))

\* C11's case: in a second run the persisted index holds an entry the
\* skip-existing branch rewrote and an entry of a set written at its fallback
C11_Witness ==
    /\ runs >= 2
    /\ IndexOnDisk(disk).kind = "index"
    /\ \E sid \in DOMAIN IndexOnDisk(disk).doc :
          /\ sid \in handled /\ sid \notin fetched
          /\ ~IndexOnDisk(disk).doc[sid].used_fallback
    /\ \E sid \in DOMAIN IndexOnDisk(disk).doc :
          IndexOnDisk(disk).doc[sid].used_fallback

\* C12: the fallback log is append-only: in every step of every run the
\* lines the log held before the step are a prefix of the lines it holds
\* after it; no step rewrites, truncates or removes a line.
C12_FallbackLogAppendOnly ==
    [][LET old == LogLines(disk)
           new == LogLines(disk)'
       IN  /\ Len(old) <= Len(new)
           /\ SubSeq(new, 1, Len(old)) = old]_vars

\* C12's case: a line was appended to a log that already held one
C12_Witness ==
    /\ Len(LogLines(disk)) >= 2
    /\ LogLines(disk)[1] # LogLines(disk)[2]

\* the set summaries of jurisdiction i this run has handled: fetched, written
\* and recorded, or skipped with the index entry refreshed
HandledOf(i) ==
    {k \in 1..NSets(i) : Sets[i][k].has_id /\ Sets[i][k].set_id \in handled}

\* C13: in a run with --max-sets m > 0, at most m set summaries of each
\* jurisdiction are handled (downloaded and recorded, or skipped with the
\* index entry refreshed), also on a re-run over existing outputs.
C13_SetCap ==
    args.max_sets > 0 =>
        \A i \in 1..NJur : Cardinality(HandledOf(i)) <= args.max_sets

\* C14: no remote request is issued before load_api_key has yielded a key:
\* while line 145 has not returned no call is under way and the run has
\* fetched and written nothing; every remote call is made with a key that
\* is not empty; and a run that stopped for a missing key has issued no
\* request and written no file.
C14_KeyBeforeNetwork ==
    /\ pc = "load_api_key" =>
          /\ rt = NoCall
          /\ fetched = {} /\ wrote = {} /\ handled = {}
    /\ rt.status # "none" => key \notin {NoKey, ""}
    /\ (pc = "idle" /\ exit.why = "Missing API key") =>
          fetched = {} /\ wrote = {} /\ handled = {}

\* C15: for every text and every n >= 0, _short(text, n) has at most n
\* characters.
C15_ShortLength ==
    (pc = "slug" /\ report.status = "returned") => Len(report.short) <= report.n

SlugChars == {LowerAZ[i] : i \in 1..Len(LowerAZ)} \cup Digits

\* C16: for every text, slug(text) is not empty, holds only characters of
\* [a-z0-9] and "-", has no two "-" in a row, neither starts nor ends with
\* "-", and is "unnamed" when the text has no letter and no digit.
C16_SlugShape ==
    (pc = "slug" /\ report.status = "returned") =>
        LET g == report.slug
        IN  /\ g # <<>>
            /\ \A i \in 1..Len(g) : g[i] \in SlugChars \cup {"-"}
            /\ \A i \in 1..(Len(g) - 1) : ~(g[i] = "-" /\ g[i + 1] = "-")
            /\ g[1] # "-" /\ g[Len(g)] # "-"
            /\ (\A i \in 1..Len(report.text) : ~IsAlnum(LowerChar(report.text[i])))
                  => g = unnamed

\* C16's case: a text with a leading "-", an uppercase letter and a space
\* between two alphanumerics was slugged
C16_Witness ==
    /\ pc = "slug" /\ report.status = "returned"
    /\ Len(report.text) = 4
    /\ report.text[1] = "-" /\ report.text[2] = "B"
    /\ report.text[3] = " " /\ report.text[4] = "7"
    /\ report.slug = <<"b", "-", "7">>

\* this run wrote the artifact of set k of jurisdiction i in full: it opened
\* the file for writing and the file holds a complete record
WrittenByRun(i, k) ==
    \E p \in {Sets[i][k].out_file, Sets[i][k].fallback_file} :
        p \in wrote /\ Parses(disk, p)

\* C17: at every boundary of the set loop the persisted index is the
\* in-memory index once update_path_index has returned in this run, and it
\* holds an entry for every set whose artifact this run has written in full
\* or whose entry it refreshed on a skip.
C17_WriteThroughIndex ==
    pc = "for_s" =>
        LET ix == IndexOnDisk(disk)
        IN  /\ handled # {} =>
                  /\ ix.kind = "index"
                  /\ ix.doc = path_index
                  /\ handled \subseteq DOMAIN ix.doc
            /\ \A ik \in CatalogSets :
                  WrittenByRun(ik[1], ik[2]) =>
                      /\ ix.kind = "index"
                      /\ Sets[ik[1]][ik[2]].set_id \in DOMAIN ix.doc

\* the boundaries of the jurisdiction loop and of the set loop
LoopBoundary == pc \in {"for_j", "for_s"}

\* C18: a user interruption requested inside the loops ends the run only at
\* a boundary of the set loop or of the jurisdiction loop, with no remote
\* request and no write in flight, and the run then exits with code 130.
C18_CooperativeCancellation ==
    [][(InTry /\ pc' = "idle" /\ exit'.why = "KeyboardInterrupt") =>
          /\ LoopBoundary
          /\ rt.status = "none" /\ wf.status = "none" /\ upd.status = "none"
          /\ exit'.code = 130]_vars

\* C19: every run of main() that was started ends, whatever requests and
\* file operations fail; no remote call makes more than 3 attempts; and the
\* loops only move forward: every arrival at the head of the jurisdiction
\* loop is at a later jurisdiction, and every arrival at the head of the set
\* loop is at the first set of a listing just written or at a later set of
\* the same jurisdiction.
C19_Termination ==
    /\ (pc # "idle") ~> (pc = "idle")
    /\ [](rt.status # "none" => rt.calls <= default_retries)
    /\ [][/\ pc' = "for_j" => idx_j' > idx_j
          /\ pc' = "for_s" =>
                \/ pc = "write_listing" /\ s_k' = 1 /\ idx_j' = idx_j
                \/ pc # "write_listing" /\ s_k' > s_k /\ idx_j' = idx_j]_vars

\* C19's case: a run in which an operation failed has visited every
\* jurisdiction and returned
C19_Witness ==
    /\ pc = "idle" /\ runs >= 1
    /\ exit.how = "returned" /\ disturbed
    /\ handled # {}

\* the file the listing of jurisdiction i is written to when no write fails
ListingFile(i) ==
    IF Jur[i].primary_too_long THEN Jur[i].jur_sets_fallback
    ELSE Jur[i].jur_sets_primary

\* the ids jurisdiction i lists
ListedIds(i) ==
    {Jur[i].listing[n].id :
        n \in {m \in 1..Len(Jur[i].listing) : "id" \in DOMAIN Jur[i].listing[m]}}

\* C20: after a run that returned with nothing failing, the listing of every
\* jurisdiction it processed is in the file it was written to, and the
\* expected universe of the verification pass (the ids in all the
\* standard_sets_*.json files) holds every id listed by every processed
\* jurisdiction.
C20_ListingsKeptApart ==
    (RanToCompletion /\ \A p \in jur_files(disk) : Parses(disk, p)) =>
        \A i \in Visited(args) :
            /\ Parses(disk, ListingFile(i))
            /\ disk[ListingFile(i)] = Dumps(Jur[i].listing)
            /\ ListedIds(i) \subseteq expected_ids(disk)

====
